---- MODULE Spec2Model ----
(***************************************************************************)
(* PlantCare: the root component App (its plant collection, the load and   *)
(* persist effects, the four store operations and the active tab), the     *)
(* Dashboard's derived values, the home cards, the PlantManager with its   *)
(* add form and its cards, and the Gallery.                                *)
(*                                                                         *)
(* Spec is the store alone, its operations called with any argument.       *)
(* SpecApp is the app as the user drives it, every handler with one input; *)
(* SpecForm, SpecCards, SpecManager and SpecGallery are one component each *)
(* with all its inputs; SpecViews renders the Dashboard and the            *)
(* PlantManager over collections of up to MaxListed entries; SpecBatch is  *)
(* the store with calls made before App has rendered the call before.      *)
(*                                                                         *)
(* Dates.  The code keeps dates as ISO strings "YYYY-MM-DD" cut from       *)
(* Date.toISOString(), that is the UTC calendar day.  The model writes a   *)
(* date as the number of that UTC day; the order of the strings is the     *)
(* order of the day numbers.                                               *)
(*                                                                         *)
(* Clock.  now counts sampled instants: instant n lies in UTC day          *)
(* n \div TicksPerDay; the first instant of a day lies in the first hour   *)
(* of that UTC day and the last one in its last hour.  Date.now() is the   *)
(* instant itself, so two reads with no Tick in between are equal.         *)
(***************************************************************************)
EXTENDS Integers, Sequences, FiniteSets, TLC

VARIABLES plants, storage, pc, now, last, ui

vars == <<plants, storage, pc, now, last, ui>>

(* ------------------------------ bounds -------------------------------- *)
TicksPerDay == 2
MaxNow == 2
MaxPlants == 2

(* --------------------------- plant records ---------------------------- *)
\* the fields a plant record carries that the code reads; sunlight,
\* temperature and humidity are carried along like type and are left out
NumberFields == {"id", "wateringFrequency"}

\* { ...a, ...b }: every key of either, b's value where both have the key
Spread(a, b) ==
  [k \in (DOMAIN a) \cup (DOMAIN b) |-> IF k \in DOMAIN b THEN b[k] ELSE a[k]]

\* data/samplePlants.js: the fixed seed dataset
samplePlants ==
  << [id |-> 101, name |-> "Monstera", type |-> "Indoor Tropical",
      wateringFrequency |-> 2, health |-> "Excellent", notes |-> "",
      lastWatered |-> 0, nextWatering |-> 2, createdAt |-> 0],
     [id |-> 102, name |-> "Aloe", type |-> "Succulent",
      wateringFrequency |-> 1, health |-> "Poor", notes |-> "",
      lastWatered |-> 0, nextWatering |-> 0, createdAt |-> 0] >>

(* ----------------------------- the clock ------------------------------ *)
\* new Date().toISOString().split('T')[0]
today == now \div TicksPerDay

\* the position of the instant inside its UTC day
Slot == now % TicksPerDay

(* ------------------------ JSON and localStorage ----------------------- *)
\* JSON.stringify of one record: a JSON number for a number, a JSON string
\* for a string (the dates are strings)
StringifyPlant(p) ==
  [k \in DOMAIN p |->
     IF k \in NumberFields THEN <<"number", p[k]>> ELSE <<"string", p[k]>>]

\* JSON.stringify(plants): one text holding the whole array
Stringify(coll) ==
  [kind |-> "array", items |-> [i \in 1..Len(coll) |-> StringifyPlant(coll[i])]]

ParsePlant(o) == [k \in DOMAIN o |-> o[k][2]]

\* JSON.parse of an array text
Parse(text) == [i \in 1..Len(text.items) |-> ParsePlant(text.items[i])]

\* localStorage.getItem returns null when the key was never written
NoItem == [kind |-> "null"]
\* the empty string
EmptyText == [kind |-> "empty"]
\* a text JSON.parse throws on
Garbage == [kind |-> "garbage"]
\* a text that parses to something that is no array: null, {}, 5
NonArray == [kind |-> "value"]

\* `if (savedPlants)`: null and "" are falsy, every other string is truthy
Truthy(saved) == saved.kind \notin {"null", "empty"}

(* ------------------------ the store operations ------------------------ *)
\* Inputs the model draws.  Drafts: what PlantForm hands to onAddPlant, and
\* the same draft already carrying the four fields addPlant assigns.
FormDrafts ==
  { [name |-> "Rose", type |-> "Flowering", wateringFrequency |-> 1,
     health |-> "Good", notes |-> ""] }

Drafts ==
  FormDrafts \cup
  { [name |-> "Rose", type |-> "Flowering", wateringFrequency |-> 1,
     health |-> "Good", notes |-> "", id |-> 7, lastWatered |-> 9,
     nextWatering |-> 9, createdAt |-> 9] }

\* the partial records updatePlant is given
Partials ==
  { [health |-> "Poor"],
    [health |-> "Poor", nextWatering |-> 0] }

\* the change, in hours, of the local zone's UTC offset between the current
\* instant and the same wall-clock time `frequency` days later: 0 when no
\* daylight-saving transition lies in between, +1 over a fall-back, -1 over
\* a spring-forward
DstShifts == {-1, 0, 1}

\* calculateNextWatering: setDate(getDate() + frequency) moves the LOCAL
\* calendar date and keeps the local wall-clock time; toISOString() then
\* cuts the UTC day.  The UTC instant moves by frequency days plus dst
\* hours, which crosses a UTC midnight from the last (first) hour of a day.
calculateNextWatering(frequency, dst) ==
  today + frequency
    + (IF dst = 1 /\ Slot = TicksPerDay - 1 THEN 1
       ELSE IF dst = -1 /\ Slot = 0 THEN -1
       ELSE 0)

\* addPlant: the value handed to setPlants
addPlant(newPlant, dst) ==
  Append(plants,
         Spread(newPlant,
                [id |-> now,
                 lastWatered |-> today,
                 nextWatering |-> calculateNextWatering(newPlant.wateringFrequency, dst),
                 createdAt |-> today]))

\* deletePlant with the test turned round: === for !==
deletePlant_KeepsMatching(plantId) ==
  SelectSeq(plants, LAMBDA plant : plant.id = plantId)

\* deletePlant: plants.filter(plant => plant.id !== plantId)
deletePlant(plantId) == SelectSeq(plants, LAMBDA plant : plant.id # plantId)

\* updatePlant without the id test: every entry is merged
updatePlant_IgnoresId(plantId, updatedData) ==
  [i \in 1..Len(plants) |-> Spread(plants[i], updatedData)]

\* updatePlant: plants.map(plant => plant.id === plantId ? {...plant, ...updatedData} : plant)
updatePlant(plantId, updatedData) ==
  [i \in 1..Len(plants) |->
     IF plants[i].id = plantId THEN Spread(plants[i], updatedData) ELSE plants[i]]

\* plants.find(p => p.id === plantId): the index of the first match, 0 for undefined
find(plantId) ==
  IF \E i \in 1..Len(plants) : plants[i].id = plantId
  THEN CHOOSE i \in 1..Len(plants) :
         /\ plants[i].id = plantId
         /\ \A j \in 1..(i - 1) : plants[j].id # plantId
  ELSE 0

\* waterPlant: the value handed to setPlants when the plant is found
waterPlant(plantId, dst) ==
  updatePlant(plantId,
              [lastWatered |-> today,
               nextWatering |->
                 calculateNextWatering(plants[find(plantId)].wateringFrequency, dst)])

(* --------------------------- the load effect -------------------------- *)
\* the load effect without the read of the storage
LoadPlants_AlwaysSample(savedPlants) == samplePlants

\* the load effect seeding also when the persisted array is empty
LoadPlants_SeedWhenEmpty(savedPlants) ==
  IF Truthy(savedPlants) /\ Len(Parse(savedPlants)) > 0
  THEN Parse(savedPlants)
  ELSE samplePlants

\* the value the load effect hands to setPlants, for a text it can parse
LoadPlants(savedPlants) ==
  IF Truthy(savedPlants) THEN Parse(savedPlants) ELSE samplePlants

\* JSON.parse(savedPlants) throws
ParseThrows(savedPlants) == savedPlants.kind = "garbage"

\* JSON.parse returns something the first render after it cannot use:
\* Dashboard reads plants.length and calls plants.filter
RenderThrows(savedPlants) == savedPlants.kind = "value"

\* the persist effect writing only a collection that has entries
SavedText_SkipsEmpty ==
  IF plants = <<>> THEN storage ELSE Stringify(plants)

\* the persist effect: what localStorage.setItem('plantcare-plants', ...)
\* is given, JSON.stringify of the plants of the render the effect belongs to
SavedText == Stringify(plants)

(* ---------------------------- the Dashboard --------------------------- *)
\* .slice(0, 5)
UpcomingLimit == 5

\* stats with the due test as < instead of <=
stats_DueStrictlyBefore ==
  [total |-> Len(plants),
   needWatering |-> Len(SelectSeq(plants, LAMBDA plant : plant.nextWatering < today)),
   healthy |-> Len(SelectSeq(plants, LAMBDA plant : plant.health = "Excellent")),
   warning |-> Len(SelectSeq(plants, LAMBDA plant : plant.health = "Poor"))]

\* the stats object of a render
stats ==
  [total |-> Len(plants),
   needWatering |-> Len(SelectSeq(plants, LAMBDA plant : plant.nextWatering <= today)),
   healthy |-> Len(SelectSeq(plants, LAMBDA plant : plant.health = "Excellent")),
   warning |-> Len(SelectSeq(plants, LAMBDA plant : plant.health = "Poor"))]

\* the due list cut like the upcoming one: .slice(0, 5)
plantsNeedingWater_Capped ==
  LET due == SelectSeq(plants, LAMBDA plant : plant.nextWatering <= today)
  IN SubSeq(due, 1, IF Len(due) < UpcomingLimit THEN Len(due) ELSE UpcomingLimit)

\* the list under "Plants Needing Water Today"
plantsNeedingWater == SelectSeq(plants, LAMBDA plant : plant.nextWatering <= today)

\* Array.prototype.sort with (a, b) => new Date(a.nextWatering) - new Date(b.nextWatering):
\* ascending by date, entries of equal date keep their order
RECURSIVE SortByNextWatering(_)
SortByNextWatering(list) ==
  IF list = <<>> THEN <<>>
  ELSE LET head == list[Len(list)]
           rest == SortByNextWatering(SubSeq(list, 1, Len(list) - 1))
       IN SelectSeq(rest, LAMBDA p : p.nextWatering <= head.nextWatering)
            \o <<head>>
            \o SelectSeq(rest, LAMBDA p : p.nextWatering > head.nextWatering)

\* the upcoming list with the slice before the sort: filter, slice, sort
upcoming_SliceBeforeSort ==
  LET later == SelectSeq(plants, LAMBDA plant : plant.nextWatering > today)
  IN SortByNextWatering(
       SubSeq(later, 1, IF Len(later) < UpcomingLimit THEN Len(later) ELSE UpcomingLimit))

\* the list under "Upcoming Watering Schedule": filter, sort, slice
upcoming ==
  LET sorted == SortByNextWatering(
                  SelectSeq(plants, LAMBDA plant : plant.nextWatering > today))
  IN SubSeq(sorted, 1, IF Len(sorted) < UpcomingLimit THEN Len(sorted) ELSE UpcomingLimit)

(* ------------------------------- texts -------------------------------- *)
\* the characters of the texts the model uses (names, types, what the user
\* types into the search box and into the form)
Chars(s) ==
  CASE s = "" -> <<>>
    [] s = "  " -> <<" ", " ">>
    [] s = "Rose" -> <<"R", "o", "s", "e">>
    [] s = "Rosemary" -> <<"R", "o", "s", "e", "m", "a", "r", "y">>
    [] s = "Aloe" -> <<"A", "l", "o", "e">>
    [] s = "Basil" -> <<"B", "a", "s", "i", "l">>
    [] s = "Monstera" -> <<"M", "o", "n", "s", "t", "e", "r", "a">>
    [] s = "Flowering" -> <<"F", "l", "o", "w", "e", "r", "i", "n", "g">>
    [] s = "Herb" -> <<"H", "e", "r", "b">>
    [] s = "Succulent" -> <<"S", "u", "c", "c", "u", "l", "e", "n", "t">>
    [] s = "Indoor Tropical" ->
         <<"I", "n", "d", "o", "o", "r", " ", "T", "r", "o", "p", "i", "c", "a", "l">>
    [] s = "rose" -> <<"r", "o", "s", "e">>
    [] s = "HERB" -> <<"H", "E", "R", "B">>
    [] s = "fern" -> <<"f", "e", "r", "n">>
    [] s = "0" -> <<"0">>
    [] s = "4" -> <<"4">>
    [] s = "45" -> <<"4", "5">>
    [] s = "-3" -> <<"-", "3">>

\* String.prototype.toLowerCase, on the letters that occur in capitals
toLowerCase(cs) ==
  LET Lower(c) ==
        CASE c = "A" -> "a" [] c = "B" -> "b" [] c = "E" -> "e" [] c = "F" -> "f"
          [] c = "H" -> "h" [] c = "I" -> "i" [] c = "M" -> "m" [] c = "R" -> "r"
          [] c = "S" -> "s" [] c = "T" -> "t" [] OTHER -> c
  IN [i \in 1..Len(cs) |-> Lower(cs[i])]

\* String.prototype.includes: needle occurs in hay at some position
includes(hay, needle) ==
  \E i \in 1..(Len(hay) - Len(needle) + 1) :
     SubSeq(hay, i, i + Len(needle) - 1) = needle

\* String.prototype.trim: the text without its leading and trailing blanks
RECURSIVE trimStart(_)
trimStart(cs) ==
  IF cs # <<>> /\ cs[1] = " " THEN trimStart(Tail(cs)) ELSE cs

RECURSIVE trimEnd(_)
trimEnd(cs) ==
  IF cs # <<>> /\ cs[Len(cs)] = " "
  THEN trimEnd(SubSeq(cs, 1, Len(cs) - 1))
  ELSE cs

trim(cs) == trimEnd(trimStart(cs))

\* parseInt: leading blanks, an optional sign, then the digits up to the
\* first character that is none; NaN when there is no digit
RECURSIVE parseDigits(_, _, _)
parseDigits(cs, acc, seen) ==
  LET DigitValue(c) ==
        CASE c = "0" -> 0 [] c = "1" -> 1 [] c = "2" -> 2 [] c = "3" -> 3
          [] c = "4" -> 4 [] c = "5" -> 5 [] c = "6" -> 6 [] c = "7" -> 7
          [] c = "8" -> 8 [] c = "9" -> 9
  IN IF cs # <<>> /\ cs[1] \in {"0", "1", "2", "3", "4", "5", "6", "7", "8", "9"}
     THEN parseDigits(Tail(cs), 10 * acc + DigitValue(cs[1]), TRUE)
     ELSE IF seen THEN <<"number", acc>> ELSE <<"NaN">>

parseInt(cs) ==
  LET text == trimStart(cs)
      minus == text # <<>> /\ text[1] = "-"
      plus == text # <<>> /\ text[1] = "+"
      digits == parseDigits(IF minus \/ plus THEN Tail(text) ELSE text, 0, FALSE)
  IN IF digits[1] = "number" /\ minus THEN <<"number", 0 - digits[2]>> ELSE digits

(* ---------------------------- the add form ---------------------------- *)
\* min and max of the frequency input
FrequencyMin == 1
FrequencyMax == 30

\* PlantForm's formData when the form opens; image, sunlight, temperature
\* and humidity are left out like in the plant records
initialFormData ==
  [name |-> "", type |-> "Indoor Tropical", wateringFrequency |-> 7,
   health |-> "Good", notes |-> ""]

\* what the user types into the name input, and the values a number input
\* reports for what the user enters ("" for an emptied field)
NameTexts == {"  ", "Rose"}
FrequencyTexts == {"", "0", "4", "45", "-3"}

\* the frequency input's onChange: parseInt(e.target.value) || 1
frequencyOf(text) ==
  LET n == parseInt(Chars(text))
  IN IF n[1] = "NaN" \/ n[2] = 0 THEN 1 ELSE n[2]

\* handleChange: { ...prev, [field]: value }
handleChange(prev, field, value) == [prev EXCEPT ![field] = value]

\* the validation without the upper limit of the frequency
checkValidity_NoMax(formData) ==
  /\ Chars(formData.name) # <<>>
  /\ formData.wateringFrequency >= FrequencyMin

\* the browser's constraint validation of the form, which runs on a click
\* of the submit button before the submit event is dispatched: the name
\* input is `required`, the frequency input carries min and max (the form
\* has no noValidate)
checkValidity(formData) ==
  /\ Chars(formData.name) # <<>>
  /\ formData.wateringFrequency >= FrequencyMin
  /\ formData.wateringFrequency <= FrequencyMax

\* handleSubmit's test without the trim
nameGiven_NoTrim(formData) == Chars(formData.name) # <<>>

\* handleSubmit's test: formData.name.trim() is a non-empty text
nameGiven(formData) == trim(Chars(formData.name)) # <<>>

(* --------------------------- the plant manager ------------------------ *)
\* what the user types into the search box
SearchTexts == {"", "rose", "HERB", "fern"}

\* the filter's test with the texts compared as they are
matches_CaseSensitive(plant, searchTerm, filterType) ==
  /\ \/ includes(Chars(plant.name), Chars(searchTerm))
     \/ includes(Chars(plant.type), Chars(searchTerm))
  /\ filterType = "all" \/ plant.type = filterType

\* the test filteredPlants keeps an entry by: matchesSearch && matchesType
matches(plant, searchTerm, filterType) ==
  /\ \/ includes(toLowerCase(Chars(plant.name)), toLowerCase(Chars(searchTerm)))
     \/ includes(toLowerCase(Chars(plant.type)), toLowerCase(Chars(searchTerm)))
  /\ filterType = "all" \/ plant.type = filterType

\* the list of cards PlantManager renders
filteredPlants ==
  SelectSeq(plants, LAMBDA plant : matches(plant, ui.searchTerm, ui.filterType))

\* the options of the type filter: ['all', ...new Set(plants.map(p => p.type))]
plantTypes == {"all"} \cup {plants[i].type : i \in 1..Len(plants)}

(* ---------------------------- the plant card -------------------------- *)
\* Math.ceil((new Date(plant.nextWatering) - new Date()) / day): rounded down
daysUntilWatering_Floor(plant) ==
  (plant.nextWatering * TicksPerDay - now) \div TicksPerDay

\* Math.ceil((new Date(plant.nextWatering) - new Date()) / day): the date
\* parses as the first instant of its UTC day
daysUntilWatering(plant) ==
  0 - ((now - plant.nextWatering * TicksPerDay) \div TicksPerDay)

\* the colour class of the badge
badge(days) ==
  IF days <= 2 THEN "urgent" ELSE IF days <= 5 THEN "soon" ELSE "ok"

\* the text of the badge
badgeText(days) ==
  IF days = 0 THEN <<"Today">>
  ELSE IF days = 1 THEN <<"Tomorrow">>
  ELSE <<days, "d">>

\* what the user types into the edit inputs of a card: field and value
EditInputs == {<<"health", "Poor">>, <<"notes", "Rose">>}

\* a card that is not rendered has no state
NoCard == [mounted |-> FALSE]

\* the state of a card at its mount: useState(false), useState(false),
\* useState(plant).  typed is history: while the card is in edit mode, the
\* fields the user typed into since the click on Edit that opened it
FreshCard(plant) ==
  [mounted |-> TRUE, showMenu |-> FALSE, isEditing |-> FALSE,
   editData |-> plant, typed |-> {}]

\* the cards after a render of the manager over coll, old[i] being the card
\* entry i had before (NoCard when it had none): a card that stays keeps its
\* state, a card that appears is mounted, a card the filter hides is gone
MountCards(coll, searchTerm, filterType, old) ==
  [i \in 1..Len(coll) |->
     IF matches(coll[i], searchTerm, filterType)
     THEN IF old[i].mounted THEN old[i] ELSE FreshCard(coll[i])
     ELSE NoCard]

(* ------------------------------ the gallery --------------------------- *)
\* the photos of an entry: two fixed pictures and plant.image
plantsWithPhotos ==
  [i \in 1..Len(plants) |->
     Spread(plants[i], [photos |-> <<"seed", "sapling", "image">>])]

\* selectedPlant when no plant is selected: null
NoPlant == [none |-> TRUE]

\* nextImage without the wrap
nextImage_NoWrap(selectedPlant, prev) == prev + 1

\* nextImage's updater: prev === photos.length - 1 ? 0 : prev + 1
nextImage(selectedPlant, prev) ==
  IF prev = Len(selectedPlant.photos) - 1 THEN 0 ELSE prev + 1

\* prevImage without the wrap
prevImage_NoWrap(selectedPlant, prev) == prev - 1

\* prevImage's updater: prev === 0 ? photos.length - 1 : prev - 1
prevImage(selectedPlant, prev) ==
  IF prev = 0 THEN Len(selectedPlant.photos) - 1 ELSE prev - 1

\* the handler nextImage on the index: if (selectedPlant) setCurrentImageIndex(...)
onNextImage(selectedPlant, index) ==
  IF selectedPlant # NoPlant THEN nextImage(selectedPlant, index) ELSE index

\* the handler prevImage on the index
onPrevImage(selectedPlant, index) ==
  IF selectedPlant # NoPlant THEN prevImage(selectedPlant, index) ELSE index

\* the two gallery sources: Gallery.jsx has the grid/list switch and the
\* thumbnail strip, the other one (part_001) renders the list only
GalleryFiles == {"Gallery.jsx", "part_001"}

\* the positions of the thumbnail strip of the modal, when it has one
thumbnails(galleryFile, selectedPlant) ==
  IF galleryFile = "Gallery.jsx" /\ Len(selectedPlant.photos) > 1
  THEN 0..(Len(selectedPlant.photos) - 1)
  ELSE {}

(* ------------------------------- the tabs ----------------------------- *)
\* the ids of the header's tab buttons
Tabs == {"dashboard", "plants", "gallery"}

\* the buttonText of the three cards of the home panel
ButtonTexts == {"View Dashboard", "Manage Plants", "Browse Gallery"}

\* Card.handleButtonClick with the gallery card leading to the dashboard
handleButtonClick_GalleryToDashboard(buttonText) ==
  IF buttonText = "View Dashboard" THEN "dashboard"
  ELSE IF buttonText = "Manage Plants" THEN "plants"
  ELSE "dashboard"

\* Card.handleButtonClick: the tab it hands to setActiveTab
handleButtonClick(buttonText) ==
  IF buttonText = "View Dashboard" THEN "dashboard"
  ELSE IF buttonText = "Manage Plants" THEN "plants"
  ELSE IF buttonText = "Browse Gallery" THEN "gallery"
  ELSE "none"

\* the state of the components at the first render: App's activeTab,
\* PlantManager's showForm, searchTerm, filterType, PlantForm's formData,
\* the PlantCards (one entry for each plant while the manager is shown),
\* Gallery's viewMode, selectedPlant, currentImageIndex; galleryFile names
\* the gallery source the build uses
InitialUI ==
  [activeTab |-> "dashboard",
   showForm |-> FALSE, formData |-> initialFormData,
   searchTerm |-> "", filterType |-> "all", cards |-> <<>>,
   galleryFile |-> "Gallery.jsx", viewMode |-> "grid",
   selectedPlant |-> NoPlant, currentImageIndex |-> 0]

\* the components after App renders another tab: the ones of the old tab
\* are unmounted and their state is lost, the ones of the new tab start
\* from their initial state
TabUI(tab, coll, galleryFile) ==
  [InitialUI EXCEPT
     !.activeTab = tab,
     !.galleryFile = galleryFile,
     !.cards = IF tab = "plants"
               THEN MountCards(coll, "", "all", [i \in 1..Len(coll) |-> NoCard])
               ELSE <<>>]

\* setActiveTab(tab) with another tab than the active one
ShowTab(tab) == TabUI(tab, plants, ui.galleryFile)

(* ------------------------------ the state ------------------------------ *)
\* plants  : App's state `plants`, as the next render sees it
\* storage : the text under the key 'plantcare-plants'
\* pc      : "mounted" the first render (plants = []) is committed and the
\*                     mount effects are due;
\*           "commit"  setPlants was called: a render and the persist effect
\*                     are due (React runs them before the next event);
\*           "idle"    waiting for a user event;
\*           "crashed" an uncaught error unmounted the tree
\* now     : the clock
\* last    : the handler that ran last and what it was given (history only)

\* a collection an earlier session left in the storage
StoredPlants ==
  << [id |-> 50, name |-> "Basil", type |-> "Herb",
      wateringFrequency |-> 1, health |-> "Good", notes |-> "",
      lastWatered |-> 0, nextWatering |-> 1, createdAt |-> 0] >>

InitialStorage ==
  { NoItem, EmptyText, Garbage, NonArray,
    Stringify(<<>>), Stringify(StoredPlants) }

\* the ids a handler is called with: those of the entries and one of no entry
Ids == {plants[i].id : i \in 1..Len(plants)} \cup {-1}

Init ==
  /\ plants = <<>>
  /\ storage \in InitialStorage
  /\ pc = "mounted"
  /\ now = 0
  /\ last = [op |-> "init"]
  /\ ui = InitialUI

\* the mount effects, in order: the load effect (reads the storage, calls
\* setPlants) and the persist effect of the first render, whose closure
\* holds plants = [].  When JSON.parse throws, the tree is unmounted;
\* whether the persist effect of the same component still runs after the
\* throw depends on the React version, so both outcomes are possible.
MountEffects ==
  /\ pc = "mounted"
  /\ last' = [op |-> "load", blob |-> storage,
              before |-> IF last.op = "reload" /\ last.from = "idle"
                         THEN <<TRUE, last.before>>
                         ELSE <<FALSE, <<>>>>]
  /\ IF Truthy(storage) /\ ParseThrows(storage)
     THEN /\ pc' = "crashed"
          /\ plants' = plants
          /\ storage' \in {storage, SavedText}
     ELSE IF Truthy(storage) /\ RenderThrows(storage)
     THEN /\ pc' = "crashed"
          /\ plants' = plants
          /\ storage' = SavedText
     ELSE /\ pc' = "commit"
          /\ plants' = LoadPlants(storage)
          /\ storage' = SavedText
  /\ UNCHANGED <<now, ui>>

\* the render after setPlants and its persist effect
Commit ==
  /\ pc = "commit"
  /\ storage' = SavedText
  /\ pc' = "idle"
  /\ UNCHANGED <<plants, now, last, ui>>

AddPlant(newPlant, dst) ==
  /\ pc = "idle"
  /\ Len(plants) < MaxPlants
  /\ plants' = addPlant(newPlant, dst)
  /\ pc' = "commit"
  /\ last' = [op |-> "add", draft |-> newPlant]
  /\ UNCHANGED <<storage, now, ui>>

DeletePlant(plantId) ==
  /\ pc = "idle"
  /\ plants' = deletePlant(plantId)
  /\ pc' = "commit"
  /\ last' = [op |-> "delete", id |-> plantId]
  /\ UNCHANGED <<storage, now, ui>>

UpdatePlant(plantId, updatedData) ==
  /\ pc = "idle"
  /\ plants' = updatePlant(plantId, updatedData)
  /\ pc' = "commit"
  /\ last' = [op |-> "update", id |-> plantId, data |-> updatedData]
  /\ UNCHANGED <<storage, now, ui>>

\* waterPlant calls updatePlant only when find returns a plant
WaterPlant(plantId, dst) ==
  /\ pc = "idle"
  /\ IF find(plantId) # 0
     THEN /\ plants' = waterPlant(plantId, dst)
          /\ pc' = "commit"
     ELSE UNCHANGED <<plants, pc>>
  /\ last' = [op |-> "water", id |-> plantId]
  /\ UNCHANGED <<storage, now, ui>>

\* time passes
Tick ==
  /\ pc = "idle"
  /\ now < MaxNow
  /\ now' = now + 1
  /\ last' = [op |-> "tick"]
  /\ UNCHANGED <<plants, storage, pc, ui>>

\* the user reloads the page: the memory is lost (the components start
\* from their initial state), the storage stays, the first render is
\* committed with plants = []
Reload ==
  /\ pc \in {"idle", "crashed"}
  /\ plants' = <<>>
  /\ pc' = "mounted"
  /\ last' = [op |-> "reload", before |-> IF pc = "idle" THEN plants ELSE <<>>,
              from |-> pc]
  /\ ui' = TabUI("dashboard", <<>>, ui.galleryFile)
  /\ UNCHANGED <<storage, now>>

Next ==
  \/ MountEffects
  \/ Commit
  \/ \E newPlant \in Drafts, dst \in DstShifts : AddPlant(newPlant, dst)
  \/ \E plantId \in Ids : DeletePlant(plantId)
  \/ \E plantId \in Ids, updatedData \in Partials : UpdatePlant(plantId, updatedData)
  \/ \E plantId \in Ids, dst \in DstShifts : WaterPlant(plantId, dst)
  \/ Tick
  \/ Reload

Spec == Init /\ [][Next]_vars

(* ------------------------- the user interface ------------------------- *)
\* Every handler below runs on a user event, that is from the idle state,
\* and leaves its name in last.  The add form is a modal dialog laid over
\* the whole page (fixed inset-0, aria-modal): while it is open the events
\* are those of the form.

\* a header tab button: setActiveTab(tab.id)
SetActiveTab(tab) ==
  /\ pc = "idle"
  /\ ~ui.showForm
  /\ ui' = IF tab = ui.activeTab THEN ui ELSE ShowTab(tab)
  /\ last' = [op |-> "tab", tab |-> tab]
  /\ UNCHANGED <<plants, storage, pc, now>>

\* the button (or the arrow) of a card of the home panel, which the
\* dashboard tab shows: Card.handleButtonClick
ClickCard(buttonText) ==
  /\ pc = "idle"
  /\ ui.activeTab = "dashboard"
  /\ ui' = IF handleButtonClick(buttonText) \in Tabs \ {ui.activeTab}
           THEN ShowTab(handleButtonClick(buttonText))
           ELSE ui
  /\ last' = [op |-> "home-card", text |-> buttonText]
  /\ UNCHANGED <<plants, storage, pc, now>>

\* "Water Now" of entry i of the dashboard's due list: onWaterPlant(plant.id)
ClickWaterNow(i, dst) ==
  /\ ui.activeTab = "dashboard"
  /\ i \in 1..Len(plants)
  /\ plants[i].nextWatering <= today
  /\ WaterPlant(plants[i].id, dst)

\* "Add Plant" of the manager: setShowForm(true); PlantForm mounts
OpenForm ==
  /\ pc = "idle"
  /\ ui.activeTab = "plants"
  /\ ~ui.showForm
  /\ ui' = [ui EXCEPT !.showForm = TRUE, !.formData = initialFormData]
  /\ last' = [op |-> "open-form"]
  /\ UNCHANGED <<plants, storage, pc, now>>

\* the form's close button or its Cancel: onClose, setShowForm(false);
\* PlantForm unmounts
CloseForm ==
  /\ pc = "idle"
  /\ ui.activeTab = "plants"
  /\ ui.showForm
  /\ ui' = [ui EXCEPT !.showForm = FALSE, !.formData = initialFormData]
  /\ last' = [op |-> "close-form"]
  /\ UNCHANGED <<plants, storage, pc, now>>

\* the onChange of the name input
TypeName(text) ==
  /\ pc = "idle"
  /\ ui.activeTab = "plants"
  /\ ui.showForm
  /\ ui' = [ui EXCEPT !.formData = handleChange(@, "name", text)]
  /\ last' = [op |-> "type-name", text |-> text]
  /\ UNCHANGED <<plants, storage, pc, now>>

\* the onChange of the frequency input
TypeFrequency(text) ==
  /\ pc = "idle"
  /\ ui.activeTab = "plants"
  /\ ui.showForm
  /\ ui' = [ui EXCEPT !.formData = handleChange(@, "wateringFrequency", frequencyOf(text))]
  /\ last' = [op |-> "type-frequency", text |-> text]
  /\ UNCHANGED <<plants, storage, pc, now>>

\* a click on "Add Plant" of the form (or Enter in one of its inputs): the
\* browser validates the form and, when it is valid, dispatches the submit
\* event to handleSubmit, which calls onAddPlant (App.addPlant, then
\* setShowForm(false)) and onClose
ClickSubmit(dst) ==
  /\ pc = "idle"
  /\ ui.activeTab = "plants"
  /\ ui.showForm
  /\ last' = [op |-> "submit", draft |-> ui.formData,
              handled |-> checkValidity(ui.formData)]
  /\ IF checkValidity(ui.formData) /\ nameGiven(ui.formData)
     THEN /\ Len(plants) < MaxPlants
          /\ plants' = addPlant(ui.formData, dst)
          /\ pc' = "commit"
          /\ ui' = [ui EXCEPT
                      !.showForm = FALSE,
                      !.formData = initialFormData,
                      !.cards = MountCards(plants', ui.searchTerm, ui.filterType,
                                           Append(@, NoCard))]
     ELSE UNCHANGED <<plants, pc, ui>>
  /\ UNCHANGED <<storage, now>>

\* the onChange of the search box
SetSearchTerm(text) ==
  /\ pc = "idle"
  /\ ui.activeTab = "plants"
  /\ ~ui.showForm
  /\ ui' = [ui EXCEPT
              !.searchTerm = text,
              !.cards = MountCards(plants, text, ui.filterType, @)]
  /\ last' = [op |-> "search", text |-> text]
  /\ UNCHANGED <<plants, storage, pc, now>>

\* the onChange of the type filter, whose options are plantTypes
SetFilterType(type) ==
  /\ pc = "idle"
  /\ ui.activeTab = "plants"
  /\ ~ui.showForm
  /\ type \in plantTypes
  /\ ui' = [ui EXCEPT
              !.filterType = type,
              !.cards = MountCards(plants, ui.searchTerm, type, @)]
  /\ last' = [op |-> "filter", type |-> type]
  /\ UNCHANGED <<plants, storage, pc, now>>

\* card i is on the screen
Shown(i) ==
  /\ pc = "idle"
  /\ ui.activeTab = "plants"
  /\ ~ui.showForm
  /\ i \in 1..Len(ui.cards)
  /\ ui.cards[i].mounted

\* the options button of a card: setShowMenu(!showMenu)
ToggleMenu(i) ==
  /\ Shown(i)
  /\ ui' = [ui EXCEPT !.cards[i].showMenu = ~@]
  /\ last' = [op |-> "menu"]
  /\ UNCHANGED <<plants, storage, pc, now>>

\* "Edit" of the menu: setIsEditing(true), setShowMenu(false)
ClickEdit(i) ==
  /\ Shown(i)
  /\ ui.cards[i].showMenu
  /\ ui' = [ui EXCEPT !.cards[i].isEditing = TRUE,
                      !.cards[i].showMenu = FALSE]
  /\ last' = [op |-> "edit"]
  /\ UNCHANGED <<plants, storage, pc, now>>

\* "Delete" of the menu: onDelete(plant.id); the cards of the entries that
\* go are unmounted
ClickDelete(i) ==
  /\ Shown(i)
  /\ ui.cards[i].showMenu
  /\ plants' = deletePlant(plants[i].id)
  /\ pc' = "commit"
  /\ LET kept == SelectSeq([k \in 1..Len(plants) |-> k],
                           LAMBDA k : plants[k].id # plants[i].id)
     IN ui' = [ui EXCEPT
                 !.cards = MountCards(plants', ui.searchTerm, ui.filterType,
                                      [k \in 1..Len(kept) |-> ui.cards[kept[k]]])]
  /\ last' = [op |-> "delete", id |-> plants[i].id]
  /\ UNCHANGED <<storage, now>>

\* an edit input written through to the plant of the collection
TypeDraft_WritesPlant(i, field, value) ==
  /\ Shown(i)
  /\ ui.cards[i].isEditing
  /\ ui' = [ui EXCEPT !.cards[i].editData[field] = value,
                      !.cards[i].typed = @ \cup {field}]
  /\ plants' = [plants EXCEPT ![i][field] = value]
  /\ last' = [op |-> "type-draft", card |-> i, field |-> field]
  /\ UNCHANGED <<storage, pc, now>>

\* the onChange of an edit input: setEditData({...editData, [field]: value})
TypeDraft(i, field, value) ==
  /\ Shown(i)
  /\ ui.cards[i].isEditing
  /\ ui' = [ui EXCEPT !.cards[i].editData[field] = value,
                      !.cards[i].typed = @ \cup {field}]
  /\ last' = [op |-> "type-draft", card |-> i, field |-> field]
  /\ UNCHANGED <<plants, storage, pc, now>>

\* "Save": handleSave, onUpdate(plant.id, editData), setIsEditing(false)
ClickSave(i) ==
  /\ Shown(i)
  /\ ui.cards[i].isEditing
  /\ plants' = updatePlant(plants[i].id, ui.cards[i].editData)
  /\ pc' = "commit"
  /\ ui' = [ui EXCEPT
              !.cards = MountCards(plants', ui.searchTerm, ui.filterType,
                                   [@ EXCEPT ![i].isEditing = FALSE,
                                             ![i].typed = {}])]
  /\ last' = [op |-> "save", card |-> i]
  /\ UNCHANGED <<storage, now>>

\* "Cancel" of the edit mode: setIsEditing(false)
ClickCancel(i) ==
  /\ Shown(i)
  /\ ui.cards[i].isEditing
  /\ ui' = [ui EXCEPT !.cards[i].isEditing = FALSE,
                      !.cards[i].typed = {}]
  /\ last' = [op |-> "cancel"]
  /\ UNCHANGED <<plants, storage, pc, now>>

\* "Water Now" of a card in view mode: onWater(plant.id)
ClickWater(i, dst) ==
  /\ Shown(i)
  /\ ~ui.cards[i].isEditing
  /\ WaterPlant(plants[i].id, dst)

\* the gallery is on the screen
OnGallery == pc = "idle" /\ ui.activeTab = "gallery"

\* the grid and list buttons of Gallery.jsx: setViewMode
SetViewMode(mode) ==
  /\ OnGallery
  /\ ui.galleryFile = "Gallery.jsx"
  /\ ui' = [ui EXCEPT !.viewMode = mode]
  /\ last' = [op |-> "view-mode", mode |-> mode]
  /\ UNCHANGED <<plants, storage, pc, now>>

\* a click on a tile or a row: setSelectedPlant(plant), setCurrentImageIndex(0)
SelectPlant(i) ==
  /\ OnGallery
  /\ i \in 1..Len(plants)
  /\ ui' = [ui EXCEPT !.selectedPlant = plantsWithPhotos[i],
                      !.currentImageIndex = 0]
  /\ last' = [op |-> "select", entry |-> i]
  /\ UNCHANGED <<plants, storage, pc, now>>

\* Enter on a tile or a row: setSelectedPlant(plant)
SelectPlantByKey(i) ==
  /\ OnGallery
  /\ i \in 1..Len(plants)
  /\ ui' = [ui EXCEPT !.selectedPlant = plantsWithPhotos[i]]
  /\ last' = [op |-> "select-key", entry |-> i]
  /\ UNCHANGED <<plants, storage, pc, now>>

\* the close button of the modal: setSelectedPlant(null)
CloseModal ==
  /\ OnGallery
  /\ ui.selectedPlant # NoPlant
  /\ ui' = [ui EXCEPT !.selectedPlant = NoPlant]
  /\ last' = [op |-> "close"]
  /\ UNCHANGED <<plants, storage, pc, now>>

\* the next button of the modal, shown when there are several photos
NextImage ==
  /\ OnGallery
  /\ ui.selectedPlant # NoPlant
  /\ Len(ui.selectedPlant.photos) > 1
  /\ ui' = [ui EXCEPT !.currentImageIndex = onNextImage(ui.selectedPlant, @)]
  /\ last' = [op |-> "next"]
  /\ UNCHANGED <<plants, storage, pc, now>>

\* the previous button of the modal
PrevImage ==
  /\ OnGallery
  /\ ui.selectedPlant # NoPlant
  /\ Len(ui.selectedPlant.photos) > 1
  /\ ui' = [ui EXCEPT !.currentImageIndex = onPrevImage(ui.selectedPlant, @)]
  /\ last' = [op |-> "prev"]
  /\ UNCHANGED <<plants, storage, pc, now>>

\* a thumbnail of the strip: setCurrentImageIndex(index)
SelectThumbnail(index) ==
  /\ OnGallery
  /\ ui.selectedPlant # NoPlant
  /\ index \in thumbnails(ui.galleryFile, ui.selectedPlant)
  /\ ui' = [ui EXCEPT !.currentImageIndex = index]
  /\ last' = [op |-> "thumbnail", index |-> index]
  /\ UNCHANGED <<plants, storage, pc, now>>

(* ----------------------------- the whole app -------------------------- *)
\* the first card on the screen, if there is one
FirstShown ==
  {i \in 1..Len(ui.cards) :
     /\ ui.cards[i].mounted
     /\ \A j \in 1..(i - 1) : ~ui.cards[j].mounted}

\* App as the user drives it: the store operations run from the buttons
\* that call them.  Every handler of every component is here, each with one
\* input: the card handlers run on the first card shown, the type filter takes
\* every option offered; the clock stands still and no daylight-saving
\* change is near.
NextApp ==
  \/ MountEffects
  \/ Commit
  \/ Reload
  \/ \E tab \in Tabs : SetActiveTab(tab)
  \/ \E buttonText \in ButtonTexts : ClickCard(buttonText)
  \/ \E i \in 1..Len(plants) : ClickWaterNow(i, 0)
  \/ OpenForm
  \/ CloseForm
  \/ TypeName("Rose")
  \/ TypeFrequency("45")
  \/ ClickSubmit(0)
  \/ SetSearchTerm("rose")
  \/ \E type \in plantTypes : SetFilterType(type)
  \/ \E i \in FirstShown : ToggleMenu(i)
  \/ \E i \in FirstShown : ClickEdit(i)
  \/ \E i \in FirstShown : ClickDelete(i)
  \/ \E i \in FirstShown : TypeDraft(i, "health", "Poor")
  \/ \E i \in FirstShown : ClickSave(i)
  \/ \E i \in FirstShown : ClickCancel(i)
  \/ \E i \in FirstShown : ClickWater(i, 0)
  \/ \E mode \in {"grid", "list"} : SetViewMode(mode)
  \/ \E i \in 1..Len(plants) : SelectPlant(i)
  \/ \E i \in 1..Len(plants) : SelectPlantByKey(i)
  \/ CloseModal
  \/ NextImage
  \/ PrevImage
  \/ \E index \in 0..2 : SelectThumbnail(index)

SpecApp == Init /\ [][NextApp]_vars

(* ------------------------------ the add form ------------------------- *)
\* App with the add form as the only way to change the collection
NextForm ==
  \/ MountEffects
  \/ Commit
  \/ Tick
  \/ \E tab \in Tabs : SetActiveTab(tab)
  \/ OpenForm
  \/ CloseForm
  \/ \E text \in NameTexts : TypeName(text)
  \/ \E text \in FrequencyTexts : TypeFrequency(text)
  \/ \E dst \in DstShifts : ClickSubmit(dst)

SpecForm == Init /\ [][NextForm]_vars

(* ----------------------------- the plant cards ------------------------ *)
\* App with the cards as the only way to change the collection
NextCards ==
  \/ MountEffects
  \/ Commit
  \/ \E tab \in Tabs : SetActiveTab(tab)
  \/ \E i \in 1..Len(plants) : ToggleMenu(i)
  \/ \E i \in 1..Len(plants) : ClickEdit(i)
  \/ \E i \in 1..Len(plants) : ClickDelete(i)
  \/ \E i \in 1..Len(plants), input \in EditInputs : TypeDraft(i, input[1], input[2])
  \/ \E i \in 1..Len(plants) : ClickSave(i)
  \/ \E i \in 1..Len(plants) : ClickCancel(i)
  \/ \E i \in 1..Len(plants), dst \in DstShifts : ClickWater(i, dst)

SpecCards == Init /\ [][NextCards]_vars

(* --------------------------- the plant manager ------------------------ *)
\* App with the manager's search box, type filter, add form and the Delete
\* of its cards
NextManager ==
  \/ MountEffects
  \/ Commit
  \/ \E tab \in Tabs : SetActiveTab(tab)
  \/ \E text \in SearchTexts : SetSearchTerm(text)
  \/ \E type \in plantTypes : SetFilterType(type)
  \/ OpenForm
  \/ CloseForm
  \/ TypeName("Rose")
  \/ ClickSubmit(0)
  \/ \E i \in 1..Len(plants) : ToggleMenu(i)
  \/ \E i \in 1..Len(plants) : ClickDelete(i)

SpecManager == Init /\ [][NextManager]_vars

(* ------------------------------ the gallery --------------------------- *)
\* the gallery tab of either source, over a loaded collection
InitGallery ==
  /\ plants \in {samplePlants, StoredPlants}
  /\ storage = Stringify(plants)
  /\ pc = "idle"
  /\ now = 0
  /\ last = [op |-> "tab", tab |-> "gallery"]
  /\ \E galleryFile \in GalleryFiles : ui = TabUI("gallery", plants, galleryFile)

NextGallery ==
  \/ \E mode \in {"grid", "list"} : SetViewMode(mode)
  \/ \E i \in 1..Len(plants) : SelectPlant(i)
  \/ \E i \in 1..Len(plants) : SelectPlantByKey(i)
  \/ CloseModal
  \/ NextImage
  \/ PrevImage
  \/ \E index \in 0..2 : SelectThumbnail(index)

SpecGallery == InitGallery /\ [][NextGallery]_vars

(* ------------------------------- the views ---------------------------- *)
\* The lists the Dashboard and the PlantManager derive, over collections
\* larger than the user interface above builds.
MaxListed == 6
MaxDate == 2

\* entry i of a collection of the views, with its nextWatering
ViewPlant(i, date) ==
  LET names == <<"Rose", "Rosemary", "Aloe", "Basil">>
      types == <<"Flowering", "Herb", "Succulent", "Herb">>
  IN [id |-> 200 + i, name |-> names[((i - 1) % 4) + 1],
      type |-> types[((i - 1) % 4) + 1], wateringFrequency |-> 1,
      health |-> "Good", notes |-> "", lastWatered |-> 0,
      nextWatering |-> date, createdAt |-> 0]

\* the collections of n entries the Dashboard is rendered over: every
\* choice of dates
DashboardCollections(n) ==
  { [i \in 1..n |-> ViewPlant(i, date[i])] : date \in [1..n -> 0..MaxDate] }

\* the collections of n entries the PlantManager is rendered over: dates
\* two days apart
ManagerCollections(n) ==
  { [i \in 1..n |-> ViewPlant(i, first + 2 * (i - 1))] : first \in 0..1 }

\* plants after a render of the Dashboard: filter builds a new array and
\* sort orders that array, so the array of the state is as it was
plantsAfterDashboard == plants

\* a render of the Dashboard: its lists and its count
RenderDashboard ==
  /\ pc = "idle"
  /\ ui.activeTab = "dashboard"
  /\ plants' = plantsAfterDashboard
  /\ last' = [op |-> "render", due |-> plantsNeedingWater,
              upcoming |-> upcoming, needWatering |-> stats.needWatering]
  /\ UNCHANGED <<storage, pc, now, ui>>

InitViews ==
  /\ \E n \in 0..MaxListed :
       \/ /\ plants \in DashboardCollections(n)
          /\ ui = TabUI("dashboard", plants, "Gallery.jsx")
       \/ /\ plants \in ManagerCollections(n)
          /\ ui = TabUI("plants", plants, "Gallery.jsx")
  /\ storage = Stringify(plants)
  /\ pc = "idle"
  /\ now = 0
  /\ last = [op |-> "init"]

NextViews ==
  \/ Tick
  \/ RenderDashboard
  \/ \E text \in SearchTexts : SetSearchTerm(text)
  \/ \E type \in plantTypes : SetFilterType(type)

SpecViews == InitViews /\ [][NextViews]_vars

(* ------------------------- calls before the render -------------------- *)
\* The four operations are closures of a render of App: each reads the
\* `plants` of that render and hands setPlants a value, not an updater.  A
\* second call made before App has rendered again (pc = "commit") goes
\* through the closures of the render before, and the value it hands to
\* setPlants replaces the one of the first call.

\* the plants of the last committed render: its persist effect wrote them
renderedPlants == IF storage.kind = "array" THEN Parse(storage) ELSE <<>>

\* addPlant of a render whose plants is closure
addPlantIn(closure, newPlant, dst) ==
  Append(closure,
         Spread(newPlant,
                [id |-> now,
                 lastWatered |-> today,
                 nextWatering |-> calculateNextWatering(newPlant.wateringFrequency, dst),
                 createdAt |-> today]))

\* deletePlant of a render whose plants is closure
deletePlantIn(closure, plantId) ==
  SelectSeq(closure, LAMBDA plant : plant.id # plantId)

\* updatePlant of a render whose plants is closure
updatePlantIn(closure, plantId, updatedData) ==
  [i \in 1..Len(closure) |->
     IF closure[i].id = plantId THEN Spread(closure[i], updatedData) ELSE closure[i]]

\* plants.find of a render whose plants is closure
findIn(closure, plantId) ==
  IF \E i \in 1..Len(closure) : closure[i].id = plantId
  THEN CHOOSE i \in 1..Len(closure) :
         /\ closure[i].id = plantId
         /\ \A j \in 1..(i - 1) : closure[j].id # plantId
  ELSE 0

\* waterPlant of a render whose plants is closure, when the plant is found
waterPlantIn(closure, plantId, dst) ==
  updatePlantIn(closure, plantId,
                [lastWatered |-> today,
                 nextWatering |->
                   calculateNextWatering(closure[findIn(closure, plantId)].wateringFrequency, dst)])

\* a store operation has been called and App has not rendered since
CalledBeforeRender ==
  /\ pc = "commit"
  /\ last.op \in {"add", "delete", "update", "water"}

\* the ids a second call is given: those of the rendered entries
RenderedIds == {renderedPlants[i].id : i \in 1..Len(renderedPlants)}

AddPlantBeforeRender(newPlant, dst) ==
  /\ CalledBeforeRender
  /\ Len(plants) < MaxPlants
  /\ Len(renderedPlants) < MaxPlants
  /\ plants' = addPlantIn(renderedPlants, newPlant, dst)
  /\ last' = [op |-> "add", draft |-> newPlant, dst |-> dst, after |-> last.op]
  /\ UNCHANGED <<storage, pc, now, ui>>

DeletePlantBeforeRender(plantId) ==
  /\ CalledBeforeRender
  /\ plants' = deletePlantIn(renderedPlants, plantId)
  /\ last' = [op |-> "delete", id |-> plantId, after |-> last.op]
  /\ UNCHANGED <<storage, pc, now, ui>>

UpdatePlantBeforeRender(plantId, updatedData) ==
  /\ CalledBeforeRender
  /\ plants' = updatePlantIn(renderedPlants, plantId, updatedData)
  /\ last' = [op |-> "update", id |-> plantId, data |-> updatedData, after |-> last.op]
  /\ UNCHANGED <<storage, pc, now, ui>>

WaterPlantBeforeRender(plantId, dst) ==
  /\ CalledBeforeRender
  /\ IF findIn(renderedPlants, plantId) # 0
     THEN plants' = waterPlantIn(renderedPlants, plantId, dst)
     ELSE plants' = plants
  /\ last' = [op |-> "water", id |-> plantId, dst |-> dst, after |-> last.op]
  /\ UNCHANGED <<storage, pc, now, ui>>

\* the store with calls before and after the render
NextBatch ==
  \/ MountEffects
  \/ Commit
  \/ Tick
  \/ \E newPlant \in FormDrafts : AddPlant(newPlant, 0)
  \/ \E plantId \in Ids : DeletePlant(plantId)
  \/ \E plantId \in Ids, updatedData \in Partials : UpdatePlant(plantId, updatedData)
  \/ \E plantId \in Ids : WaterPlant(plantId, 0)
  \/ \E newPlant \in FormDrafts : AddPlantBeforeRender(newPlant, 0)
  \/ \E plantId \in RenderedIds : DeletePlantBeforeRender(plantId)
  \/ \E plantId \in RenderedIds, updatedData \in Partials :
        UpdatePlantBeforeRender(plantId, updatedData)
  \/ \E plantId \in RenderedIds : WaterPlantBeforeRender(plantId, 0)

SpecBatch == Init /\ [][NextBatch]_vars

(* ------------------------------- claims ------------------------------- *)
HasId(coll, plantId) == \E i \in 1..Len(coll) : coll[i].id = plantId

\* the step of a store operation: taken from the idle state, it leaves its
\* name in last
StepOf(op) == pc = "idle" /\ last'.op = op

\* C1: water(id) on a plant of the collection sets that plant's lastWatered
\* to the current date and its nextWatering to the current date plus its
\* wateringFrequency days, whatever they were, and changes no other field
\* of that plant and no other plant.
C1_WaterSetsBothDates ==
  [][ (StepOf("water") /\ HasId(plants, last'.id)) =>
        /\ Len(plants') = Len(plants)
        /\ \A i \in 1..Len(plants) :
             plants'[i] =
               IF plants[i].id = last'.id
               THEN [plants[i] EXCEPT
                       !.lastWatered = today,
                       !.nextWatering = today + plants[i].wateringFrequency]
               ELSE plants[i] ]_vars

\* C2: delete(id) removes exactly one entry, the one with that id, and
\* leaves the others and their order as they were, in every reachable
\* collection.
C2_DeleteRemovesExactlyOne ==
  [][ (StepOf("delete") /\ HasId(plants, last'.id)) =>
        \E k \in 1..Len(plants) :
           /\ plants[k].id = last'.id
           /\ plants' = SubSeq(plants, 1, k - 1) \o SubSeq(plants, k + 1, Len(plants)) ]_vars

\* C3: update(id, partial_fields) changes, in the entries with that id, the
\* fields of partial_fields to the supplied values and nothing else; the
\* other entries, the length and the order stay.
C3_UpdateMergesSuppliedFields ==
  [][ StepOf("update") =>
        /\ Len(plants') = Len(plants)
        /\ \A i \in 1..Len(plants) :
             IF plants[i].id = last'.id
             THEN /\ DOMAIN plants'[i] = DOMAIN plants[i]
                  /\ \A k \in DOMAIN plants[i] :
                       plants'[i][k] = IF k \in DOMAIN last'.data
                                       THEN last'.data[k]
                                       ELSE plants[i][k]
             ELSE plants'[i] = plants[i] ]_vars

\* an update has merged two fields into one entry of two and the entry
\* keeps a field it was not given
C3_Witness ==
  /\ pc = "commit"
  /\ last.op = "update"
  /\ DOMAIN last.data = {"health", "nextWatering"}
  /\ Len(plants) = 2
  /\ \E i, j \in 1..2 :
       /\ plants[i].id = last.id
       /\ plants[i].health = "Poor"
       /\ plants[i].nextWatering = 0
       /\ plants[i].name = "Monstera"
       /\ plants[j].id # last.id
       /\ plants[j].health # "Poor"

\* C4: add(plant_draft) appends one entry and leaves the others; the entry
\* has the draft's descriptive fields, the id add assigns, lastWatered =
\* today, nextWatering = today + the draft's wateringFrequency, createdAt =
\* today, these four overriding the draft's.
C4_AddAppendsWithDerivedDates ==
  [][ StepOf("add") =>
        /\ Len(plants') = Len(plants) + 1
        /\ SubSeq(plants', 1, Len(plants)) = plants
        /\ LET new == plants'[Len(plants')]
               draft == last'.draft
           IN /\ \A k \in (DOMAIN draft) \ {"id", "lastWatered", "nextWatering", "createdAt"} :
                   new[k] = draft[k]
              /\ new.id = now
              /\ new.lastWatered = today
              /\ new.nextWatering = today + draft.wateringFrequency
              /\ new.createdAt = today ]_vars

\* C5: delete, update and water with an id of no entry leave the collection
\* as it was.
C5_AbsentIdIsNoOp ==
  [][ (/\ pc = "idle"
       /\ last'.op \in {"delete", "update", "water"}
       /\ ~HasId(plants, last'.id)) => plants' = plants ]_vars

\* delete was called with the id of no entry on a collection of two
C5_Witness ==
  /\ pc = "commit"
  /\ last.op = "delete"
  /\ ~HasId(plants, last.id)
  /\ Len(plants) = 2

\* the load effect has run on the text last.blob and no store operation
\* has run since
Loaded == last.op = "load"

\* C6 as stated: on initial load, an absent or empty persisted collection
\* gives the seed dataset, any other persisted collection gives itself.
C6_AbsentOrEmptyLoadsSeed ==
  (Loaded /\ last.blob.kind \in {"null", "array"}) =>
     /\ pc # "crashed"
     /\ plants = IF last.blob.kind = "null" \/ Len(last.blob.items) = 0
                 THEN samplePlants
                 ELSE Parse(last.blob)

\* C6 amended: on initial load, an absent value (or the empty text) gives
\* the seed dataset; a persisted collection gives itself, the empty
\* collection included.
C6_AbsentLoadsSeedElsePersisted ==
  (Loaded /\ last.blob.kind \in {"null", "empty", "array"}) =>
     /\ pc # "crashed"
     /\ IF last.blob.kind = "array"
        THEN /\ Len(plants) = Len(last.blob.items)
             /\ \A i \in 1..Len(plants) :
                  /\ DOMAIN plants[i] = DOMAIN last.blob.items[i]
                  /\ \A k \in DOMAIN plants[i] : plants[i][k] = last.blob.items[i][k][2]
        ELSE plants = samplePlants

\* the load effect has read a persisted empty collection and the collection
\* in memory is empty
C6_Witness ==
  /\ Loaded
  /\ pc = "idle"
  /\ last.blob.kind = "array"
  /\ Len(last.blob.items) = 0
  /\ plants = <<>>

\* C7: on initial load of a malformed persisted value the load does not
\* fail: the collection is the seed dataset and the application runs.
C7_MalformedLoadsSeed ==
  (Loaded /\ last.blob.kind \in {"garbage", "value"}) =>
     /\ pc # "crashed"
     /\ plants = samplePlants

\* C8: persisting a reachable collection and loading it again gives the
\* same collection: same ids, same field values, same order.
C8_RoundTrip ==
  (Loaded /\ last.before[1]) =>
     /\ pc # "crashed"
     /\ plants = last.before[2]

\* a collection holding a plant the user added and then watered or edited
\* came back from a reload
C8_Witness ==
  /\ Loaded
  /\ pc = "idle"
  /\ last.before[1]
  /\ plants = last.before[2]
  /\ \E i \in 1..Len(plants) : plants[i].name = "Rose" /\ plants[i].health = "Poor"

\* C9: the persist step follows every store operation before the next user
\* event: whenever the application is idle, the stored text is the
\* serialization of the whole collection in memory.
C9_IdleStorageIsCollection ==
  pc = "idle" => storage = Stringify(plants)

\* the collection was emptied by a delete and the persist step has run
C9_Witness ==
  /\ pc = "idle"
  /\ last.op = "delete"
  /\ plants = <<>>
  /\ storage = Stringify(<<>>)

\* C10: the dashboard's counts are total = the number of entries,
\* needWatering = those with nextWatering <= today, healthy = those with
\* health Excellent, warning = those with health Poor; for the empty
\* collection all are 0 and the due and upcoming lists are empty.
C10_DashboardCounts ==
  LET Count(P(_)) == Cardinality({i \in 1..Len(plants) : P(plants[i])})
      Due(p) == p.nextWatering <= today
      Excellent(p) == p.health = "Excellent"
      Poor(p) == p.health = "Poor"
  IN /\ stats.total = Len(plants)
     /\ stats.needWatering = Count(Due)
     /\ stats.healthy = Count(Excellent)
     /\ stats.warning = Count(Poor)
     /\ plants = <<>> =>
          /\ stats = [total |-> 0, needWatering |-> 0, healthy |-> 0, warning |-> 0]
          /\ plantsNeedingWater = <<>>
          /\ upcoming = <<>>

\* a rendered collection with a plant due exactly today, one not due, one
\* in Excellent and one in Poor health
C10_Witness ==
  /\ pc = "idle"
  /\ Len(plants) = 2
  /\ stats.needWatering = 1
  /\ stats.healthy = 1
  /\ stats.warning = 1
  /\ \E i \in 1..2 : plants[i].nextWatering = today

\* the entries of coll at the positions in S, in the order of coll
Picked(coll, S) ==
  LET Nth(k) == CHOOSE i \in S : Cardinality({j \in S : j < i}) = k - 1
  IN [k \in 1..Cardinality(S) |-> coll[Nth(k)]]

\* C11: the dashboard's due list holds every entry with nextWatering <=
\* today and no other, in collection order, however many they are; its
\* length is the needWatering count.
C11_DueListIsEveryDueEntry ==
  last.op = "render" =>
     /\ last.due = Picked(plants, {i \in 1..Len(plants) : plants[i].nextWatering <= today})
     /\ Len(last.due) = last.needWatering

\* a rendered due list of more than five entries that is not in date order
C11_Witness ==
  /\ last.op = "render"
  /\ Len(last.due) > 5
  /\ last.due[1].nextWatering > last.due[2].nextWatering

\* C12: the dashboard's upcoming list holds only entries with nextWatering >
\* today, in ascending order of nextWatering, at most 5 of them, and they
\* are the earliest ones: no entry left out is earlier than one shown.
\* Computing it leaves the collection as it was.
C12_UpcomingIsEarliestFive ==
  [][ StepOf("render") =>
        LET shown == last'.upcoming
            Later == {i \in 1..Len(plants) : plants[i].nextWatering > today}
            Listed(p) == Cardinality({k \in 1..Len(shown) : shown[k] = p})
            Ahead(p) == Cardinality({i \in Later : plants[i] = p})
        IN /\ \A k \in 1..Len(shown) : Listed(shown[k]) <= Ahead(shown[k])
           /\ \A i \in Later :
                Listed(plants[i]) < Ahead(plants[i]) =>
                   \A k \in 1..Len(shown) :
                      shown[k].nextWatering <= plants[i].nextWatering
           /\ \A k, l \in 1..Len(shown) :
                k < l => shown[k].nextWatering <= shown[l].nextWatering
           /\ Len(shown) = IF Cardinality(Later) < 5 THEN Cardinality(Later) ELSE 5
           /\ plants' = plants ]_vars

\* six entries lie ahead, the collection is not in date order, and the one
\* left out of the rendered list is not the last of the collection
C12_Witness ==
  /\ last.op = "render"
  /\ Len(plants) = 6
  /\ \A i \in 1..6 : plants[i].nextWatering > today
  /\ Len(last.upcoming) = 5
  /\ plants[1].nextWatering > plants[6].nextWatering
  /\ \A k \in 1..5 : last.upcoming[k] # plants[1]

\* C13: the plant manager shows exactly the entries for which the search
\* text is a case-insensitive substring of the name or of the type and the
\* filter is "all" or equals the type, in collection order; an empty search
\* text with filter "all" shows every entry.
C13_ManagerListIsSearchAndFilter ==
  ui.activeTab = "plants" =>
    LET SameLetter(a, b) == toLowerCase(<<a>>) = toLowerCase(<<b>>)
        Within(text, hay) ==
          \E offset \in 0..(Len(hay) - Len(text)) :
             \A k \in 1..Len(text) : SameLetter(text[k], hay[offset + k])
        Wanted ==
          {i \in 1..Len(plants) :
             /\ \/ Within(Chars(ui.searchTerm), Chars(plants[i].name))
                \/ Within(Chars(ui.searchTerm), Chars(plants[i].type))
             /\ ui.filterType = "all" \/ plants[i].type = ui.filterType}
    IN /\ filteredPlants = Picked(plants, Wanted)
       /\ \A i \in 1..Len(plants) : ui.cards[i].mounted <=> i \in Wanted
       /\ (ui.searchTerm = "" /\ ui.filterType = "all") => filteredPlants = plants

\* search "rose" under the filter Herb shows Rosemary alone: Rose is of
\* another type and Basil has no "rose" in it
C13_Witness ==
  /\ ui.activeTab = "plants"
  /\ ui.searchTerm = "rose"
  /\ ui.filterType = "Herb"
  /\ Len(plants) = 4
  /\ filteredPlants = <<plants[2]>>
  /\ plants[2].name = "Rosemary"

\* C14: while a plant is selected, "next" moves from the last photo index to
\* 0 and otherwise to index + 1, "previous" moves from 0 to the last index
\* and otherwise to index - 1, and selecting a thumbnail sets the index to
\* the thumbnail's position; in both gallery sources.
C14_CarouselWraps ==
  [][ LET lastIndex == Len(ui.selectedPlant.photos) - 1
          index == ui.currentImageIndex
      IN /\ StepOf("next") =>
              ui'.currentImageIndex = IF index = lastIndex THEN 0 ELSE index + 1
         /\ StepOf("prev") =>
              ui'.currentImageIndex = IF index = 0 THEN lastIndex ELSE index - 1
         /\ StepOf("thumbnail") => ui'.currentImageIndex = last'.index
         /\ (pc = "idle" /\ last'.op \in {"next", "prev", "thumbnail"}) =>
              /\ ui.selectedPlant # NoPlant
              /\ ui'.selectedPlant = ui.selectedPlant ]_vars

\* in the list-only gallery "next" has just wrapped from the last photo to
\* the first
C14_Witness ==
  /\ ui.galleryFile = "part_001"
  /\ last.op = "next"
  /\ ui.selectedPlant # NoPlant
  /\ ui.currentImageIndex = 0

\* C15: a submission of the add form with an empty or all-blank name is
\* rejected: add is not invoked, the collection is unchanged and the form
\* stays open; a submission handleSubmit receives with any other name
\* invokes add once with the form data and closes the form.
C15_SubmitNeedsName ==
  [][ StepOf("submit") =>
        LET formData == ui.formData
        IN IF formData.name \in {"", "  "}
           THEN /\ plants' = plants
                /\ pc' = "idle"
                /\ ui' = ui
           ELSE last'.handled =>
                  /\ Len(plants') = Len(plants) + 1
                  /\ SubSeq(plants', 1, Len(plants)) = plants
                  /\ \A k \in DOMAIN formData : plants'[Len(plants')][k] = formData[k]
                  /\ pc' = "commit"
                  /\ ~ui'.showForm ]_vars

\* handleSubmit has received a form whose name is blanks only and the form
\* is still open, with what was typed
C15_Witness ==
  /\ last.op = "submit"
  /\ last.handled
  /\ last.draft.name = "  "
  /\ pc = "idle"
  /\ ui.showForm
  /\ ui.formData = last.draft

\* C16 as stated: a frequency entered out of range is set to 1 in the form,
\* so every plant the form adds has an integer frequency in 1..30.
C16_OutOfRangeBecomesOne ==
  [][ /\ StepOf("type-frequency") =>
           /\ ui'.formData.wateringFrequency \in 1..30
           /\ last'.text \in {"", "0", "45", "-3"} => ui'.formData.wateringFrequency = 1
      /\ (StepOf("submit") /\ plants' # plants) =>
           plants'[Len(plants')].wateringFrequency \in 1..30 ]_vars

\* C16 amended: an emptied field and 0 become 1 in the form; any other
\* number entered is kept, its integer part, also when it is out of range,
\* and the form then cannot be submitted; so every plant the form adds has
\* an integer frequency in 1..30.
C16_InvalidFrequencyBlocksSubmit ==
  [][ /\ StepOf("type-frequency") =>
           ui'.formData.wateringFrequency =
             CASE last'.text \in {"", "0"} -> 1
               [] last'.text = "4" -> 4
               [] last'.text = "45" -> 45
               [] last'.text = "-3" -> 0 - 3
      /\ (StepOf("submit") /\ ui.formData.wateringFrequency \notin 1..30) =>
           /\ plants' = plants
           /\ ui' = ui
      /\ (StepOf("submit") /\ plants' # plants) =>
           plants'[Len(plants')].wateringFrequency \in 1..30 ]_vars

\* the user has clicked the submit button of a form that holds a name and
\* the frequency 45: nothing was added, and the form is open and holds 45
C16_Witness ==
  /\ last.op = "submit"
  /\ last.draft.name = "Rose"
  /\ last.draft.wateringFrequency = 45
  /\ pc = "idle"
  /\ ui.showForm
  /\ ui.formData.wateringFrequency = 45

\* C17: a card's edit draft is committed by update on Save only and is
\* dropped on Cancel: opening the menu, Edit, typing and Cancel leave the
\* collection as it was, and Save changes, of the fields a card edits, those
\* only that the user typed into since the click on Edit that opened the
\* edit mode.
C17_CancelDropsDraft ==
  [][ /\ (pc = "idle" /\ last'.op \in {"menu", "edit", "type-draft", "cancel"}) =>
           plants' = plants
      /\ StepOf("save") =>
           LET card == ui.cards[last'.card]
           IN \A j \in 1..Len(plants) :
                \A k \in {"name", "notes", "health"} \ card.typed :
                   plants'[j][k] = plants[j][k] ]_vars

\* C18: a card's days until watering is nextWatering minus today in whole
\* days, rounded up, so negative for an overdue plant; the badge is urgent
\* for <= 2 (every due or overdue plant), soon for 3..5, ok for more; the
\* plant records and the stored text never hold the value or the badge.
C18_DaysUntilWateringBadge ==
  /\ \A i \in 1..Len(ui.cards) :
       ui.cards[i].mounted =>
         LET plant == plants[i]
             days == daysUntilWatering(plant)
         IN /\ days = plant.nextWatering - today
            /\ plant.nextWatering < today => days < 0
            /\ badge(days) = "urgent" <=> days <= 2
            /\ badge(days) = "soon" <=> days \in 3..5
            /\ badge(days) = "ok" <=> days > 5
            /\ plant.nextWatering <= today => badge(days) = "urgent"
  /\ \A i \in 1..Len(plants) :
       DOMAIN plants[i] \cap {"daysUntilWatering", "badge"} = {}
  /\ storage.kind = "array" =>
       \A i \in 1..Len(storage.items) :
          DOMAIN storage.items[i] \cap {"daysUntilWatering", "badge"} = {}

\* the manager shows an overdue plant and a plant added with frequency 4,
\* whose badge is soon
C18_Witness ==
  /\ pc = "idle"
  /\ ui.activeTab = "plants"
  /\ Len(plants) = 2
  /\ Len(ui.cards) = 2
  /\ ui.cards[1].mounted /\ ui.cards[2].mounted
  /\ daysUntilWatering(plants[1]) < 0
  /\ badge(daysUntilWatering(plants[2])) = "soon"

\* the handlers that are no store operation
ViewOps ==
  {"tab", "home-card", "search", "filter", "open-form", "close-form",
   "type-name", "type-frequency", "menu", "edit", "cancel", "type-draft",
   "view-mode", "select", "select-key", "close", "next", "prev", "thumbnail"}

\* C19: the collection changes only through add, delete, update and water:
\* switching tabs, search, filter, opening and closing the form, typing into
\* it, a card's menu, edit mode and draft, and every gallery action leave
\* the collection and the stored text as they were.
C19_OnlyStoreOperationsChangePlants ==
  [][ /\ (pc = "idle" /\ last'.op \in ViewOps) =>
           /\ plants' = plants
           /\ storage' = storage
           /\ pc' = "idle"
      /\ (pc = "idle" /\ plants' # plants) =>
           last'.op \in {"submit", "delete", "save", "water", "reload"} ]_vars

\* the user has typed another health into the draft of a card; the plant
\* and the stored text are as before
C19_Witness ==
  /\ pc = "idle"
  /\ last.op = "type-draft"
  /\ ui.cards[last.card].editData.health = "Poor"
  /\ plants[last.card].health = "Excellent"
  /\ storage = Stringify(plants)

\* C20: the active tab is one of dashboard, plants, gallery and is dashboard
\* when the app starts; the home cards "View Dashboard", "Manage Plants" and
\* "Browse Gallery" set it to dashboard, plants and gallery, a header button
\* sets it to its tab, and nothing else changes it.
C20_ActiveTab ==
  [][ /\ ui.activeTab \in {"dashboard", "plants", "gallery"}
      /\ ui'.activeTab \in {"dashboard", "plants", "gallery"}
      /\ pc = "mounted" => ui.activeTab = "dashboard"
      /\ StepOf("home-card") =>
           ui'.activeTab = CASE last'.text = "View Dashboard" -> "dashboard"
                             [] last'.text = "Manage Plants" -> "plants"
                             [] last'.text = "Browse Gallery" -> "gallery"
      /\ StepOf("tab") => ui'.activeTab = last'.tab
      /\ ui'.activeTab # ui.activeTab =>
           /\ last'.op \in {"home-card", "tab", "reload"}
           /\ last'.op = "reload" => ui'.activeTab = "dashboard" ]_vars

\* the home card "Browse Gallery" has led from the dashboard to the gallery
C20_Witness ==
  /\ last.op = "home-card"
  /\ last.text = "Browse Gallery"
  /\ ui.activeTab = "gallery"

\* C21: computing the next watering date with frequency f in 1..30 gives
\* the current date plus f days, in add and in water alike, and gives it
\* again when computed again on the same day; so watering a plant that was
\* already watered that day leaves its record as it is.
C21_NextWateringIsDatePlusFrequency ==
  [][ /\ (pc = "idle" /\ last'.op \in {"add", "water"} /\ plants' # plants) =>
           \A i \in 1..Len(plants') :
              (i > Len(plants) \/ plants'[i] # plants[i]) =>
                 /\ plants'[i].wateringFrequency \in 1..30
                 /\ plants'[i].nextWatering = today + plants'[i].wateringFrequency
      /\ StepOf("water") =>
           \A i \in 1..Len(plants) :
              (/\ plants[i].id = last'.id
               /\ plants[i].lastWatered = today
               /\ plants[i].nextWatering = today + plants[i].wateringFrequency) =>
                 plants'[i] = plants[i] ]_vars

\* C22: Save of a card changes at most the name, the notes and the health
\* of the card's plant: lastWatered, nextWatering and every other field of
\* every entry are after Save what they were right before it, also when the
\* plant was watered while its card was mounted.
C22_SaveKeepsWateringDates ==
  [][ StepOf("save") =>
        /\ Len(plants') = Len(plants)
        /\ \A j \in 1..Len(plants) :
             /\ DOMAIN plants'[j] = DOMAIN plants[j]
             /\ \A k \in (DOMAIN plants[j]) \ {"name", "notes", "health"} :
                  plants'[j][k] = plants[j][k]
             /\ j # last'.card => plants'[j] = plants[j] ]_vars

\* C23: in every reachable state the entries of the collection have
\* pairwise distinct ids, whatever adds, deletes, updates and waters ran,
\* two adds at one clock reading and adds on top of the seed or of a loaded
\* collection included.
C23_IdsAreDistinct ==
  \A i, j \in 1..Len(plants) : i # j => plants[i].id # plants[j].id

\* C24: starting the application never destroys persisted data: from the
\* mount until the loaded collection is written back, the stored text is
\* either the text that was stored before the mount or the serialization of
\* the loaded (or seed) collection; a persisted collection with entries is
\* never overwritten with the empty collection.
C24_MountKeepsStoredText ==
  (Loaded /\ last.blob.kind \in {"null", "empty", "array"}) =>
     /\ storage \in {last.blob, Stringify(LoadPlants(last.blob))}
     /\ (last.blob.kind = "array" /\ Len(last.blob.items) > 0) =>
          storage # Stringify(<<>>)

\* the ids of the entries no add created: the seed and the stored ones
GivenIds ==
  {samplePlants[i].id : i \in 1..Len(samplePlants)}
    \cup {StoredPlants[i].id : i \in 1..Len(StoredPlants)}

\* C25: every plant created through add has nextWatering = lastWatered +
\* wateringFrequency days in every later reachable state.
C25_AddedPlantsKeepSchedule ==
  \A i \in 1..Len(plants) :
     plants[i].id \notin GivenIds =>
        plants[i].nextWatering = plants[i].lastWatered + plants[i].wateringFrequency

\* C26: watering a due plant whose wateringFrequency is at least 1 takes it
\* out of the due set of that day: right after water(id) the plant has
\* nextWatering > today, so it is no entry of the due list and is one of the
\* entries the upcoming list is drawn from, and the needWatering count is
\* one lower than before.
C26_WateringClearsDue ==
  [][ StepOf("water") =>
        LET Due(coll) == {i \in 1..Len(coll) : coll[i].nextWatering <= today}
        IN \A i \in Due(plants) :
             (plants[i].id = last'.id /\ plants[i].wateringFrequency >= 1) =>
                /\ plants'[i].nextWatering > today
                /\ i \notin Due(plants')
                /\ Cardinality(Due(plants')) = Cardinality(Due(plants)) - 1 ]_vars

\* C27: in the plant manager the selected type filter is always one of the
\* options offered, "all" or a type present in the collection, after any
\* filter selections, adds and deletes, also after the last plant of the
\* selected type is deleted.
C27_FilterIsOffered ==
  ui.activeTab = "plants" => ui.filterType \in plantTypes

\* C28: whenever the gallery modal is opened for a plant, by a click or by
\* Enter on the plant's tile or row, the carousel starts at photo index 0,
\* whatever the index was when a modal was closed before.
C28_ModalOpensAtFirstPhoto ==
  [][ (/\ pc = "idle"
       /\ last'.op \in {"select", "select-key"}
       /\ ui.selectedPlant = NoPlant) =>
        /\ ui'.selectedPlant = plantsWithPhotos[last'.entry]
        /\ ui'.currentImageIndex = 0 ]_vars

\* C29: in every reachable gallery state the photo index lies in
\* 0..photoCount - 1 of the selected plant, photoCount being 3 for every
\* plant; next followed by previous, and previous followed by next, give
\* the index back; photoCount times next gives it back; next and previous
\* change nothing while no plant is selected.
C29_IndexInRangeAndInverse ==
  ui.activeTab = "gallery" =>
    LET plant == ui.selectedPlant
        index == ui.currentImageIndex
        Next1(k) == onNextImage(plant, k)
        Prev1(k) == onPrevImage(plant, k)
    IN /\ \A i \in 1..Len(plants) : Len(plantsWithPhotos[i].photos) = 3
       /\ index \in 0..2
       /\ plant # NoPlant =>
            /\ Len(plant.photos) = 3
            /\ Prev1(Next1(index)) = index
            /\ Next1(Prev1(index)) = index
            /\ Next1(Next1(Next1(index))) = index
            /\ Next1(index) \in 0..2 /\ Prev1(index) \in 0..2
       /\ plant = NoPlant => (Next1(index) = index /\ Prev1(index) = index)

\* "previous" has just wrapped from the first photo to the last one
C29_Witness ==
  /\ last.op = "prev"
  /\ ui.selectedPlant # NoPlant
  /\ ui.currentImageIndex = Len(ui.selectedPlant.photos) - 1

\* C30: no store operation is lost: when two of add, delete, update and
\* water are called one after the other, the collection is the second
\* applied to the result of the first, also when the second is called
\* through a callback of the render before the first one's result.
C30_NoOperationIsLost ==
  [][ (CalledBeforeRender /\ pc' = "commit" /\ "after" \in DOMAIN last') =>
        plants' =
          CASE last'.op = "add" -> addPlant(last'.draft, last'.dst)
            [] last'.op = "delete" -> deletePlant(last'.id)
            [] last'.op = "update" -> updatePlant(last'.id, last'.data)
            [] last'.op = "water" ->
                 IF find(last'.id) # 0 THEN waterPlant(last'.id, last'.dst) ELSE plants ]_vars

====
